---- MODULE Spec2Model ----
(***************************************************************************)
(* A model of src/Main.cpp: the stb_truetype text renderer.                *)
(*                                                                         *)
(* The state is the global `localState` (window height, view projection,   *)
(* vertex batch, glyph tables, texture) together with the position of      *)
(* main(), the window system's pending events and the log of GL calls.     *)
(*                                                                         *)
(* Numbers.  The program computes positions in 32 bit floats.  The model   *)
(* computes them exactly, as integers counting 1/WorldUnit of a world unit *)
(* (a size such as 0.7f is held in tenths, 7); the window heights drawn    *)
(* divide 2 * WorldUnit / 10, so every product below is exact and the      *)
(* order of the multiplications is the order of the code.  Rounding of     *)
(* floats is not modelled.  Glyph metrics are whole pixels.                *)
(*                                                                         *)
(* Four specifications share the definitions:                              *)
(*   Spec        main() as written: start-up, then the render loop with    *)
(*               its three DrawText calls, resize and close events;        *)
(*   BatchSpec   a client of DrawBegin/DrawText/RenderFrame that draws     *)
(*               any strings, a different batch in every frame;            *)
(*   TextSpec    one frame of DrawText calls over any in-range string,     *)
(*               size and window height;                                   *)
(*   RenderSpec  Render applied to a vertex vector of any size around the  *)
(*               multiples of the VBO capacity.                            *)
(***************************************************************************)
EXTENDS Integers, Sequences, FiniteSets, TLC

VARIABLES
    pc,                     \* where main() (or the client of the renderer) is
    currentWindowHeight,    \* localState.currentWindowHeight
    viewProjectionMat,      \* localState.viewProjectionMat
    vertices,               \* localState.vertices
    vertexIndex,            \* localState.vertexIndex
    packedChars,            \* localState.packedChars
    alignedQuads,           \* localState.alignedQuads
    fontTextureID,          \* localState.fontTextureID: 0, or the uploaded atlas
    fontLoad,               \* what stb_truetype returned in SetupFont
    stderrLog,              \* the messages written to std::cerr
    windowShouldClose,      \* GLFW's close flag of the window
    eventQueue,             \* window events not yet polled
    glCalls,                \* the GL calls of the last Render call
    renderArg,              \* size() of the vector the last Render call was given
    frameCalls,             \* the DrawText calls made since the last DrawBegin
    frameSteps,             \* the steps of the current loop iteration, in order
    frameNo,                \* BatchSpec, TextSpec: frames begun so far
    vpEvent,                \* the window size viewProjectionMat was computed from
    heightEvent             \* the window size currentWindowHeight was taken from

vars == <<pc, currentWindowHeight, viewProjectionMat, vertices, vertexIndex,
          packedChars, alignedQuads, fontTextureID, fontLoad, stderrLog,
          windowShouldClose, eventQueue, glCalls, renderArg, frameCalls,
          frameSteps, frameNo, vpEvent, heightEvent>>

windowVars == <<currentWindowHeight, viewProjectionMat, vpEvent, heightEvent>>
batchVars  == <<vertices, vertexIndex>>
fontVars   == <<packedChars, alignedQuads, fontTextureID, fontLoad, stderrLog>>
eventVars  == <<windowShouldClose, eventQueue>>

-----------------------------------------------------------------------------
(* Bounds of the model *)

\* longest string a client passes to DrawText (BatchSpec, TextSpec)
MaxLen == 2
\* most DrawText calls a client makes in one frame (BatchSpec, TextSpec)
MaxCalls == 2
\* frames a client draws (BatchSpec)
MaxFrames == 2
\* most window events pending between two polls (Spec)
MaxPending == 2
\* Render is given vectors of m * capacity + d vertices, m <= MaxChunks
MaxChunks == 2
\* ... and |d| <= MaxDelta quads
MaxDelta == 9

-----------------------------------------------------------------------------
(* Program constants *)

codePointOfFirstChar == 32
charsToIncludeInFontAtlas == 95
fontAtlasWidth == 512
fontAtlasHeight == 512
WIDTH == 800
HEIGHT == 600

\* sizeof(Vertex): 3 + 4 + 2 floats of 4 bytes
SizeofVertex == 36
\* the number of vertices the VBO is sized for
VboVertices == 600000
VBO_SIZE == VboVertices * SizeofVertex

\* a uint32_t is held as its two 16 bit halves <<high, low>>: TLC's integers
\* have 32 bits
HalfWord == 256 * 256

\* std::string as the sequence of its chars
textToDisplay ==
    <<84, 104, 105, 115, 32, 105, 115, 32, 115, 111, 109, 101, 32, 116, 101,
      120, 116, 32, 114, 101, 110, 100, 101, 114, 101, 100, 32, 105, 110, 32,
      79, 112, 101, 110, 71, 76, 46>>

\* the three DrawText calls of main(): text, position, color, size (tenths)
MainCalls ==
    <<[text |-> textToDisplay,
       position |-> <<-10, 0, 0>>, color |-> <<10, 10, 10, 10>>, size |-> 7],
      [text |-> <<84, 104, 101, 32, 99, 111, 108, 111, 114, 32, 111, 102, 32,
                  116, 101, 120, 116, 32, 99, 97, 110, 32, 98, 101, 32, 99,
                  104, 97, 110, 103, 101, 100, 32, 116, 111, 111, 33>>,
       position |-> <<-5, -4, 0>>, color |-> <<1, 5, 10, 10>>, size |-> 5],
      [text |-> <<115, 116, 98, 95, 116, 114, 117, 101, 116, 121, 112, 101,
                  46, 104, 32, 101, 120, 97, 109, 112, 108, 101>>,
       position |-> <<-8, 4, 0>>, color |-> <<9, 2, 3, 10>>, size |-> 10]>>

-----------------------------------------------------------------------------
(* Units of the exact arithmetic *)

\* model units per world unit: sizes and positions are given in tenths, and
\* 2 * WorldUnit / 10 is a multiple of every window height drawn below
WorldUnit == 10 * 600

\* a position of the source, given in tenths of a world unit, in model units
Tenths(v) == <<v[1] * (WorldUnit \div 10), v[2] * (WorldUnit \div 10),
               v[3] * (WorldUnit \div 10)>>

\* the window sizes the window system reports: width, height
WindowSizes == {<<WIDTH, HEIGHT>>, <<800, 300>>}

\* what a client passes to DrawText
InRangeChars == {65, 66}
\* '\n' and DEL, the first code point after the range
OutOfRangeChars == {10, 127}
Positions == {<<-5, -4, 0>>}
Sizes == {5, 10}
Colors == {<<10, 10, 10, 10>>}

RECURSIVE Strings(_, _)
Strings(chars, n) ==
    IF n = 0 THEN {<<>>}
    ELSE LET shorter == Strings(chars, n - 1)
         IN  shorter \cup {Append(s, c) : s \in shorter, c \in chars}

-----------------------------------------------------------------------------
(* The glyph tables.  The font file is an input: one font stands for it.   *)

ZeroPackedChar ==
    [x0 |-> 0, y0 |-> 0, x1 |-> 0, y1 |-> 0, xoff |-> 0, yoff |-> 0, xadvance |-> 0]

GlyphIndices == 0 .. (charsToIncludeInFontAtlas - 1)

\* static storage: localState is zero before SetupFont runs
ZeroPackedChars == [i \in GlyphIndices |-> ZeroPackedChar]

\* what stbtt_PackFontRange writes for a font whose glyphs all fit: glyph i
\* in cell i of a grid of 16 columns, 32 x 64 pixels a cell
PackedFont(f) ==
    [i \in GlyphIndices |->
        LET w  == 8 + 4 * ((i + f) % 5)
            h  == 16 + 8 * ((i + 2 * f) % 3)
            cx == 32 * (i % 16)
            cy == 64 * (i \div 16)
        IN  [x0 |-> cx, y0 |-> cy, x1 |-> cx + w, y1 |-> cy + h,
             xoff |-> (i + f) % 3, yoff |-> (4 * (i % 2)) - h,
             xadvance |-> w + 2 + ((i + f) % 4)]]

Fonts == {PackedFont(0)}

\* what it writes when the glyphs from index `fit` on found no room: those
\* entries are left as they were
PartlyPacked(font, fit) ==
    [i \in GlyphIndices |-> IF i < fit THEN font[i] ELSE ZeroPackedChar]

\* stbtt_GetPackedQuad: the texture rectangle of a packed glyph, each
\* coordinate the pixel coordinate over the atlas dimension
GetPackedQuad(chardata, pw, ph, i) ==
    [s0 |-> <<chardata[i].x0, pw>>, t0 |-> <<chardata[i].y0, ph>>,
     s1 |-> <<chardata[i].x1, pw>>, t1 |-> <<chardata[i].y1, ph>>]

ZeroQuad  == [s0 |-> <<0, 1>>, t0 |-> <<0, 1>>, s1 |-> <<0, 1>>, t1 |-> <<0, 1>>]
ZeroAlignedQuads == [i \in GlyphIndices |-> ZeroQuad]

\* the loop of SetupFont over the glyph indices
AlignedQuadsOf(chardata) ==
    [i \in GlyphIndices |-> GetPackedQuad(chardata, fontAtlasWidth, fontAtlasHeight, i)]

\* what a read outside the two tables may return: the memory behind them
GarbageGlyphs ==
    {[packed |-> ZeroPackedChar, quad |-> ZeroQuad],
     [packed |-> [x0 |-> 7, y0 |-> 3, x1 |-> 2, y1 |-> 9, xoff |-> -1,
                  yoff |-> 5, xadvance |-> -4],
      quad |-> [s0 |-> <<3, 1>>, t0 |-> <<0, 1>>, s1 |-> <<1, 1>>, t1 |-> <<2, 1>>]]}

-----------------------------------------------------------------------------
(* DrawText *)

ZeroVertex ==
    [position |-> <<0, 0, 0>>, color |-> <<0, 0, 0, 0>>, texCoord |-> <<<<0, 1>>, <<0, 1>>>>]

\* ch - codePointOfFirstChar: the char converted to uint32_t, the difference
\* taken modulo 2^32, as <<high, low>>
GlyphIndex(ch) ==
    LET d == ch - codePointOfFirstChar
    IN  <<(d \div HalfWord) % HalfWord, d % HalfWord>>

\* the index is one of the two tables'
InTable(ch) ==
    GlyphIndex(ch)[1] = 0 /\ GlyphIndex(ch)[2] < charsToIncludeInFontAtlas

\* float pixelScale = 2.0f / localState.currentWindowHeight, in model units
PixelScale(height) == (2 * WorldUnit) \div height

\* m * pixelScale * size, the size given in tenths
Scaled(m, pixelScale, size) == ((m * pixelScale) * size) \div 10

\* the pen moved by the width of the glyph's bitmap
AdvancePenBySize(x, packedChar, pixelScale, size) ==
    x + Scaled(packedChar.x1 - packedChar.x0, pixelScale, size)

\* position.x += packedChar->xadvance * pixelScale * size
AdvancePen(x, packedChar, pixelScale, size) ==
    x + Scaled(packedChar.xadvance, pixelScale, size)

\* the six vertices of one glyph, in the order 0 1 2 0 2 3 of the corners
\* top-right, top-left, bottom-left, bottom-right
GlyphQuad(packedChar, alignedQuad, position, color, pixelScale, size) ==
    LET order == <<0, 1, 2, 0, 2, 3>>
        glyphSize == <<Scaled(packedChar.x1 - packedChar.x0, pixelScale, size),
                       Scaled(packedChar.y1 - packedChar.y0, pixelScale, size)>>
        bl == <<position[1] + Scaled(packedChar.xoff, pixelScale, size),
                position[2] - Scaled(packedChar.yoff + packedChar.y1 - packedChar.y0,
                                     pixelScale, size)>>
        glyphVertices == <<<<bl[1] + glyphSize[1], bl[2] + glyphSize[2]>>,
                           <<bl[1], bl[2] + glyphSize[2]>>,
                           <<bl[1], bl[2]>>,
                           <<bl[1] + glyphSize[1], bl[2]>>>>
        glyphTextureCoords == <<<<alignedQuad.s1, alignedQuad.t0>>,
                                <<alignedQuad.s0, alignedQuad.t0>>,
                                <<alignedQuad.s0, alignedQuad.t1>>,
                                <<alignedQuad.s1, alignedQuad.t1>>>>
    IN  [i \in 1 .. 6 |->
            [position |-> <<glyphVertices[order[i] + 1][1],
                            glyphVertices[order[i] + 1][2], position[3]>>,
             color    |-> color,
             texCoord |-> glyphTextureCoords[order[i] + 1]]]

\* the resize only when size() is below vertexIndex
GrowBatchLate(vs, vIndex) ==
    IF Len(vs) < vIndex THEN vs \o [i \in 1 .. 6 |-> ZeroVertex] ELSE vs

\* vertices.resize(vertices.size() + 6) when size() <= vertexIndex
GrowBatch(vs, vIndex) ==
    IF Len(vs) <= vIndex THEN vs \o [i \in 1 .. 6 |-> ZeroVertex] ELSE vs

\* the slots [vIndex, vIndex + 6) of the vector overwritten by the quad
WriteQuad(vs, vIndex, quad) ==
    SubSeq(vs, 1, vIndex) \o quad \o SubSeq(vs, vIndex + 7, Len(vs))

\* vertexIndex left where it was
NextVertexIndexStuck(vIndex) == vIndex

\* vertexIndex += 6 (a uint32_t; the batches drawn stay far below 2^32)
NextVertexIndex(vIndex) == vIndex + 6

\* One iteration of the loop over the chars of DrawText.  `st` is the batch,
\* the pen, the table indices read and the quads written so far (for each
\* quad the index of its first vertex and the size() of the vector when it
\* is written); `garbage` is what a read outside the tables returns.
DrawChar(st, ch, chars, quads, height, color, size, garbage) ==
    LET pixelScale  == PixelScale(height)
        grown       == GrowBatch(st.vertices, st.vertexIndex)
        idx         == GlyphIndex(ch)
        packedChar  == IF InTable(ch) THEN chars[idx[2]] ELSE garbage.packed
        alignedQuad == IF InTable(ch) THEN quads[idx[2]] ELSE garbage.quad
        quad        == GlyphQuad(packedChar, alignedQuad, st.position, color,
                                 pixelScale, size)
    IN  [vertices    |-> WriteQuad(grown, st.vertexIndex, quad),
         vertexIndex |-> NextVertexIndex(st.vertexIndex),
         position    |-> <<AdvancePen(st.position[1], packedChar, pixelScale, size),
                           st.position[2], st.position[3]>>,
         reads       |-> Append(st.reads, idx),
         writes      |-> Append(st.writes, [index |-> st.vertexIndex,
                                            size  |-> Len(grown)])]

\* The loop of DrawText over text[1 .. n]: the state before the first char
\* and after each char; garbage[k] is what the k-th char reads when it is
\* outside the tables
RECURSIVE DrawTrace(_, _, _, _, _, _, _, _, _)
DrawTrace(st, text, n, chars, quads, height, color, size, garbage) ==
    IF n = 0 THEN <<st>>
    ELSE LET before == DrawTrace(st, text, n - 1, chars, quads, height, color,
                                 size, garbage)
         IN  Append(before, DrawChar(before[n], text[n], chars, quads, height,
                                     color, size, garbage[n]))

\* the state after the chars text[1 .. n]
DrawChars(st, text, n, chars, quads, height, color, size, garbage) ==
    DrawTrace(st, text, n, chars, quads, height, color, size, garbage)[n + 1]

\* the chars before the first one outside the tables
RECURSIVE SafePrefixLen(_)
SafePrefixLen(text) ==
    IF text = <<>> \/ ~InTable(Head(text)) THEN 0 ELSE 1 + SafePrefixLen(Tail(text))

-----------------------------------------------------------------------------
(* Render *)

\* uint32_t drawCallCount = (sizeOfVertices / VBO_SIZE) + 1 (the sizes drawn
\* stay far below the 2^32 where the count would wrap)
DrawCallCount(sizeOfVertices) == (sizeOfVertices \div VBO_SIZE) + 1

\* iteration i with glDrawArrays issued before the upload and the uniform
RenderChunkDrawFirst(i, n, vp) ==
    LET sizeOfVertices == n * SizeofVertex
        last == (i = (sizeOfVertices \div VBO_SIZE))
    IN  <<[op |-> "glDrawArrays", chunk |-> i,
           count |-> IF last THEN (sizeOfVertices % VBO_SIZE) \div SizeofVertex
                     ELSE VBO_SIZE \div (SizeofVertex * 6)],
          [op |-> "glBufferSubData", chunk |-> i, first |-> i * VBO_SIZE,
           bytes |-> IF last THEN sizeOfVertices % VBO_SIZE ELSE VBO_SIZE],
          [op |-> "glUniformMatrix4fv", chunk |-> i, value |-> vp]>>

\* The GL calls of iteration i of the loop of Render over the chunks, for a
\* vector of n vertices.  `first` is the index of the vertex `data` points
\* to: data = vertices.data() + i * VBO_SIZE advances by elements.
RenderChunk(i, n, vp) ==
    LET sizeOfVertices == n * SizeofVertex
        last == (i = DrawCallCount(sizeOfVertices) - 1)
        vertexCount ==
            IF last THEN (sizeOfVertices % VBO_SIZE) \div SizeofVertex
            ELSE VBO_SIZE \div (SizeofVertex * 6)
    IN  <<[op |-> "glUniformMatrix4fv", chunk |-> i, value |-> vp],
          [op |-> "glBufferSubData", chunk |-> i, first |-> i * VBO_SIZE,
           bytes |-> IF last THEN sizeOfVertices % VBO_SIZE ELSE VBO_SIZE],
          [op |-> "glDrawArrays", chunk |-> i, count |-> vertexCount]>>

\* the GL calls of the iterations 0 .. k - 1
RECURSIVE RenderChunks(_, _, _)
RenderChunks(k, n, vp) ==
    IF k = 0 THEN <<>> ELSE RenderChunks(k - 1, n, vp) \o RenderChunk(k - 1, n, vp)

\* glBufferSubData of chunk i reads bytes that are not the vector's (counted
\* in vertices: the sizes uploaded are multiples of sizeof(Vertex))
ReadsOutside(i, n) ==
    LET upload == RenderChunk(i, n, <<>>)[2]
    IN  upload.bytes > 0
        /\ upload.first + (upload.bytes \div SizeofVertex) > n

\* What one call of Render(vertices) does, for a vector of n vertices.  A
\* read outside the vector is undefined: the upload either faults, and the
\* calls end with it, or copies whatever memory is there.
RenderOutcomes(n, vp) ==
    LET count  == DrawCallCount(n * SizeofVertex)
        faulty == {i \in 0 .. count - 1 : ReadsOutside(i, n)}
    IN  {[calls |-> RenderChunks(count, n, vp), crashed |-> FALSE]}
        \cup {[calls |-> RenderChunks(i, n, vp) \o SubSeq(RenderChunk(i, n, vp), 1, 2),
               crashed |-> TRUE] :
              i \in {j \in faulty : \A l \in faulty : j <= l}}

-----------------------------------------------------------------------------
(* The window *)

RECURSIVE Gcd(_, _)
Gcd(a, b) == IF b = 0 THEN a ELSE Gcd(b, a % b)

\* glm::ortho(-aspectRatio, aspectRatio, -1, 1) times the identity view; the
\* aspect ratio is the quotient width / height, held in lowest terms
SetupViewProjection(width, height) ==
    LET g == Gcd(width, height)
        aspectRatio == <<width \div g, height \div g>>
    IN  [left |-> <<-aspectRatio[1], aspectRatio[2]>>, right |-> aspectRatio,
         bottom |-> -1, top |-> 1]

\* the window-size callback left the height alone
SizeCallbackStaleHeight(w, width, height) ==
    [w EXCEPT !.viewProjectionMat = SetupViewProjection(width, height),
              !.vpEvent = <<width, height>>]

\* The window-size callback; `w` holds the window's part of localState.
SizeCallback(w, width, height) ==
    [viewProjectionMat   |-> SetupViewProjection(width, height),
     currentWindowHeight |-> height,
     vpEvent             |-> <<width, height>>,
     heightEvent         |-> <<width, height>>,
     shouldClose         |-> w.shouldClose]

\* glfwPollEvents: the callbacks of the pending events, oldest first
RECURSIVE PollEvents(_, _)
PollEvents(w, events) ==
    IF events = <<>> THEN w
    ELSE LET e == Head(events)
         IN  PollEvents(IF e.type = "size"
                        THEN SizeCallback(w, e.size[1], e.size[2])
                        ELSE [w EXCEPT !.shouldClose = TRUE],
                        Tail(events))

Events == {[type |-> "size", size |-> s] : s \in WindowSizes}
          \cup {[type |-> "close", size |-> <<0, 0>>]}

-----------------------------------------------------------------------------
(* The operations on the batch, as the effect they have on the state *)

NoGarbage == [packed |-> ZeroPackedChar, quad |-> ZeroQuad]

\* a value for every read of `text` that is outside the tables
GarbageChoices(text) ==
    {g \in [1 .. Len(text) -> GarbageGlyphs] :
        \A k \in 1 .. Len(text) : InTable(text[k]) => g[k] = NoGarbage}

\* DrawBegin()
DoDrawBegin ==
    /\ vertexIndex' = 0
    /\ vertices' = vertices
    /\ frameCalls' = <<>>

\* DrawText(text, position, color, size) up to and with char n of the text
DoDrawText(call, n, garbage) ==
    LET st0 == [vertices |-> vertices, vertexIndex |-> vertexIndex,
                position |-> Tenths(call.position), reads |-> <<>>,
                writes |-> <<>>]
        st1 == DrawChars(st0, call.text, n, packedChars, alignedQuads,
                         currentWindowHeight, call.color, call.size, garbage)
    IN  /\ vertices' = st1.vertices
        /\ vertexIndex' = st1.vertexIndex
        /\ frameCalls' = Append(frameCalls,
               [text |-> call.text, position |-> Tenths(call.position),
                color |-> call.color, size |-> call.size,
                height |-> currentWindowHeight, first |-> vertexIndex,
                reads |-> st1.reads, pen |-> st1.position,
                writes |-> st1.writes])

\* DrawText faulting on the first read outside the tables
DoDrawTextFault(call) ==
    LET n   == SafePrefixLen(call.text)
        st0 == [vertices |-> vertices, vertexIndex |-> vertexIndex,
                position |-> Tenths(call.position), reads |-> <<>>,
                writes |-> <<>>]
        st1 == DrawChars(st0, call.text, n, packedChars, alignedQuads,
                         currentWindowHeight, call.color, call.size,
                         [k \in 1 .. Len(call.text) |-> NoGarbage])
    IN  /\ n < Len(call.text)
        /\ vertices' = GrowBatch(st1.vertices, st1.vertexIndex)
        /\ vertexIndex' = st1.vertexIndex
        /\ frameCalls' = Append(frameCalls,
               [text |-> call.text, position |-> Tenths(call.position),
                color |-> call.color, size |-> call.size,
                height |-> currentWindowHeight, first |-> vertexIndex,
                reads |-> Append(st1.reads, GlyphIndex(call.text[n + 1])),
                pen |-> st1.position, writes |-> st1.writes])

\* RenderFrame(): Render(localState.vertices)
DoRenderFrame(outcome) ==
    /\ outcome \in RenderOutcomes(Len(vertices), viewProjectionMat)
    /\ renderArg' = Len(vertices)
    /\ glCalls' = outcome.calls

-----------------------------------------------------------------------------
(* main() *)

\* main() with RenderFrame called before the DrawText calls
AfterStepRenderFirst(step, shouldClose) ==
    CASE step = "SetupWindowAndContext" -> "RendererInit"
      [] step = "RendererInit"          -> "WindowShouldClose"
      [] step = "WindowShouldClose"     ->
            IF shouldClose THEN "Terminate" ELSE "ClearWindow"
      [] step = "ClearWindow"           -> "DrawBegin"
      [] step = "DrawBegin"             -> "RenderFrame"
      [] step = "RenderFrame"           -> "DrawText1"
      [] step = "DrawText1"             -> "DrawText2"
      [] step = "DrawText2"             -> "DrawText3"
      [] step = "DrawText3"             -> "UpdateWindow"
      [] step = "UpdateWindow"          -> "WindowShouldClose"
      [] step = "Terminate"             -> "done"

\* the statement of main() that follows `step`; the loop test decides
\* between the body and Terminate
AfterStep(step, shouldClose) ==
    CASE step = "SetupWindowAndContext" -> "RendererInit"
      [] step = "RendererInit"          -> "WindowShouldClose"
      [] step = "WindowShouldClose"     ->
            IF shouldClose THEN "Terminate" ELSE "ClearWindow"
      [] step = "ClearWindow"           -> "DrawBegin"
      [] step = "DrawBegin"             -> "DrawText1"
      [] step = "DrawText1"             -> "DrawText2"
      [] step = "DrawText2"             -> "DrawText3"
      [] step = "DrawText3"             -> "RenderFrame"
      [] step = "RenderFrame"           -> "UpdateWindow"
      [] step = "UpdateWindow"          -> "WindowShouldClose"
      [] step = "Terminate"             -> "done"

\* localState and the process before main() runs
Init ==
    /\ pc = "SetupWindowAndContext"
    /\ currentWindowHeight = 0
    /\ viewProjectionMat = [left |-> <<0, 1>>, right |-> <<0, 1>>, bottom |-> 0, top |-> 0]
    /\ vertices = <<>>
    /\ vertexIndex = 0
    /\ packedChars = ZeroPackedChars
    /\ alignedQuads = ZeroAlignedQuads
    /\ fontTextureID = 0
    /\ fontLoad = [file |-> "none", initFont |-> 0, packed |-> 0]
    /\ stderrLog = {}
    /\ windowShouldClose = FALSE
    /\ eventQueue = <<>>
    /\ glCalls = <<>>
    /\ renderArg = 0
    /\ frameCalls = <<>>
    /\ frameSteps = <<>>
    /\ frameNo = 0
    /\ vpEvent = <<0, 0>>
    /\ heightEvent = <<0, 0>>

\* SetupWindowAndContext(WIDTH, HEIGHT, title)
SetupWindowAndContext ==
    /\ pc = "SetupWindowAndContext"
    /\ \E glfwInit \in BOOLEAN :
          IF glfwInit
          THEN /\ viewProjectionMat' = SetupViewProjection(WIDTH, HEIGHT)
               /\ currentWindowHeight' = HEIGHT
               /\ vpEvent' = <<WIDTH, HEIGHT>>
               /\ heightEvent' = <<WIDTH, HEIGHT>>
               /\ pc' = AfterStep("SetupWindowAndContext", windowShouldClose)
               /\ UNCHANGED stderrLog
          ELSE /\ stderrLog' = stderrLog \cup {"GLFW Failed to initialize!"}
               /\ pc' = "exit"
               /\ UNCHANGED windowVars
    /\ UNCHANGED <<batchVars, packedChars, alignedQuads, fontTextureID, fontLoad,
                   eventVars, glCalls, renderArg, frameCalls, frameSteps, frameNo>>

\* the number of glyphs that find room when the range does not fit the atlas
FitCounts == {80}

\* SetupFont as RendererInit calls it: the result of reading and packing the
\* font file.  stb_truetype is a library: what it returns is drawn here.
\*   unreadable: tellg() is -1 and new uint8_t[-1] throws;
\*   malformed:  stbtt_InitFont returns 0, no glyph is packed;
\*   valid:      stbtt_PackFontRange packs all glyphs, or returns 0 and
\*               leaves the glyphs that found no room unwritten.
SetupFontOutcomes ==
    {[file |-> "unreadable", initFont |-> 0, packed |-> 0, chars |-> ZeroPackedChars]}
    \cup {[file |-> "malformed", initFont |-> 0, packed |-> 0, chars |-> ZeroPackedChars]}
    \cup {[file |-> "valid", initFont |-> 1, packed |-> 1, chars |-> f] : f \in Fonts}
    \cup {[file |-> "valid", initFont |-> 1, packed |-> 0, chars |-> PartlyPacked(f, n)] :
             f \in Fonts, n \in FitCounts}

\* RendererInit(): the shaders, the VBO, SetupFont, SetupFontTexture
RendererInit ==
    /\ pc = "RendererInit"
    /\ \E r \in SetupFontOutcomes :
          IF r.file = "unreadable"
          THEN /\ pc' = "terminate"
               /\ UNCHANGED fontVars
          ELSE /\ stderrLog' = IF r.initFont = 0
                               THEN stderrLog \cup {"stbtt_InitFont() Failed!"}
                               ELSE stderrLog
               /\ fontLoad' = [file |-> r.file, initFont |-> r.initFont,
                               packed |-> r.packed]
               /\ packedChars' = r.chars
               /\ alignedQuads' = AlignedQuadsOf(r.chars)
               /\ fontTextureID' = 1
               /\ pc' = AfterStep("RendererInit", windowShouldClose)
    /\ UNCHANGED <<windowVars, batchVars, eventVars, glCalls, renderArg,
                   frameCalls, frameSteps, frameNo>>

\* while (!WindowShouldClose())
WindowShouldClose ==
    /\ pc = "WindowShouldClose"
    /\ pc' = AfterStep("WindowShouldClose", windowShouldClose)
    /\ UNCHANGED <<windowVars, batchVars, fontVars, eventVars, glCalls, renderArg,
                   frameCalls, frameSteps, frameNo>>

\* ClearWindow()
ClearWindow ==
    /\ pc = "ClearWindow"
    /\ frameSteps' = <<"ClearWindow">>
    /\ pc' = AfterStep("ClearWindow", windowShouldClose)
    /\ UNCHANGED <<windowVars, batchVars, fontVars, eventVars, glCalls, renderArg,
                   frameCalls, frameNo>>

\* DrawBegin()
DrawBegin ==
    /\ pc = "DrawBegin"
    /\ DoDrawBegin
    /\ frameSteps' = Append(frameSteps, "DrawBegin")
    /\ pc' = AfterStep("DrawBegin", windowShouldClose)
    /\ UNCHANGED <<windowVars, fontVars, eventVars, glCalls, renderArg, frameNo>>

\* the three DrawText calls of the loop
DrawText(k) ==
    /\ pc = <<"DrawText1", "DrawText2", "DrawText3">>[k]
    /\ DoDrawText(MainCalls[k], Len(MainCalls[k].text),
                  [j \in 1 .. Len(MainCalls[k].text) |-> NoGarbage])
    /\ frameSteps' = Append(frameSteps, "DrawText")
    /\ pc' = AfterStep(pc, windowShouldClose)
    /\ UNCHANGED <<windowVars, fontVars, eventVars, glCalls, renderArg, frameNo>>

\* RenderFrame()
RenderFrame ==
    /\ pc = "RenderFrame"
    /\ \E outcome \in RenderOutcomes(Len(vertices), viewProjectionMat) :
          /\ DoRenderFrame(outcome)
          /\ pc' = IF outcome.crashed THEN "crashed"
                   ELSE AfterStep("RenderFrame", windowShouldClose)
    /\ frameSteps' = Append(frameSteps, "RenderFrame")
    /\ UNCHANGED <<windowVars, batchVars, fontVars, eventVars, frameCalls, frameNo>>

\* UpdateWindow(): glfwPollEvents(), which runs the callbacks of the pending
\* events, then glfwSwapBuffers()
UpdateWindow ==
    /\ pc = "UpdateWindow"
    /\ LET w == PollEvents([viewProjectionMat   |-> viewProjectionMat,
                            currentWindowHeight |-> currentWindowHeight,
                            vpEvent             |-> vpEvent,
                            heightEvent         |-> heightEvent,
                            shouldClose         |-> windowShouldClose],
                           eventQueue)
       IN  /\ viewProjectionMat' = w.viewProjectionMat
           /\ currentWindowHeight' = w.currentWindowHeight
           /\ vpEvent' = w.vpEvent
           /\ heightEvent' = w.heightEvent
           /\ windowShouldClose' = w.shouldClose
    /\ eventQueue' = <<>>
    /\ frameSteps' = Append(frameSteps, "UpdateWindow")
    /\ pc' = AfterStep("UpdateWindow", windowShouldClose)
    /\ UNCHANGED <<batchVars, fontVars, glCalls, renderArg, frameCalls, frameNo>>

\* Terminate(); return 0
Terminate ==
    /\ pc = "Terminate"
    /\ pc' = AfterStep("Terminate", windowShouldClose)
    /\ UNCHANGED <<windowVars, batchVars, fontVars, eventVars, glCalls, renderArg,
                   frameCalls, frameSteps, frameNo>>

WindowOpen ==
    pc \in {"RendererInit", "WindowShouldClose", "ClearWindow", "DrawBegin",
            "DrawText1", "DrawText2", "DrawText3", "RenderFrame", "UpdateWindow"}

\* the user resizes or closes the window: the window system queues the event
\* until the program polls
WindowEvent ==
    /\ WindowOpen
    /\ Len(eventQueue) < MaxPending
    /\ \E e \in Events : eventQueue' = Append(eventQueue, e)
    /\ UNCHANGED <<pc, windowVars, batchVars, fontVars, windowShouldClose, glCalls,
                   renderArg, frameCalls, frameSteps, frameNo>>

Next ==
    \/ SetupWindowAndContext
    \/ RendererInit
    \/ WindowShouldClose
    \/ ClearWindow
    \/ DrawBegin
    \/ \E k \in 1 .. 3 : DrawText(k)
    \/ RenderFrame
    \/ UpdateWindow
    \/ Terminate
    \/ WindowEvent

Spec == Init /\ [][Next]_vars

-----------------------------------------------------------------------------
(* A client of the renderer: the loop of main() with any DrawText calls *)

\* the state main() reaches at its loop with a font that packed, the window
\* of one of the sizes
ClientInit(windowSizes) ==
    /\ pc = "DrawBegin"
    /\ \E s \in windowSizes :
          /\ currentWindowHeight = s[2]
          /\ viewProjectionMat = SetupViewProjection(s[1], s[2])
          /\ vpEvent = s
          /\ heightEvent = s
    /\ vertices = <<>>
    /\ vertexIndex = 0
    /\ \E f \in Fonts :
          /\ packedChars = f
          /\ alignedQuads = AlignedQuadsOf(f)
    /\ fontTextureID = 1
    /\ fontLoad = [file |-> "valid", initFont |-> 1, packed |-> 1]
    /\ stderrLog = {}
    /\ windowShouldClose = FALSE
    /\ eventQueue = <<>>
    /\ glCalls = <<>>
    /\ renderArg = 0
    /\ frameCalls = <<>>
    /\ frameSteps = <<>>
    /\ frameNo = 0

\* DrawBegin(), at most `frames` times
ClientDrawBegin(frames) ==
    /\ pc = "DrawBegin"
    /\ frameNo < frames
    /\ DoDrawBegin
    /\ frameNo' = frameNo + 1
    /\ frameSteps' = <<"DrawBegin">>
    /\ pc' = "DrawText"
    /\ UNCHANGED <<windowVars, fontVars, eventVars, glCalls, renderArg>>

\* DrawText(text, position, color, size) of any arguments; a read outside the
\* glyph tables returns some garbage
ClientDrawText(texts, positions, sizes) ==
    /\ pc = "DrawText"
    /\ Len(frameCalls) < MaxCalls
    /\ \E text \in texts, position \in positions, color \in Colors, size \in sizes :
          \E garbage \in GarbageChoices(text) :
             DoDrawText([text |-> text, position |-> position, color |-> color,
                         size |-> size], Len(text), garbage)
    /\ frameSteps' = Append(frameSteps, "DrawText")
    /\ pc' = "DrawText"
    /\ UNCHANGED <<windowVars, fontVars, eventVars, glCalls, renderArg, frameNo>>

\* ... or the read faults, and the process ends
ClientDrawTextFault(texts, positions, sizes) ==
    /\ pc = "DrawText"
    /\ Len(frameCalls) < MaxCalls
    /\ \E text \in texts, position \in positions, color \in Colors, size \in sizes :
          DoDrawTextFault([text |-> text, position |-> position, color |-> color,
                           size |-> size])
    /\ frameSteps' = Append(frameSteps, "DrawText")
    /\ pc' = "crashed"
    /\ UNCHANGED <<windowVars, fontVars, eventVars, glCalls, renderArg, frameNo>>

\* RenderFrame()
ClientRenderFrame ==
    /\ pc = "DrawText"
    /\ \E outcome \in RenderOutcomes(Len(vertices), viewProjectionMat) :
          /\ DoRenderFrame(outcome)
          /\ pc' = IF outcome.crashed THEN "crashed" ELSE "DrawBegin"
    /\ frameSteps' = Append(frameSteps, "RenderFrame")
    /\ UNCHANGED <<windowVars, batchVars, fontVars, eventVars, frameCalls, frameNo>>

BatchChars == {65} \cup OutOfRangeChars
BatchTexts == Strings(BatchChars, MaxLen)
BatchPositions == {<<-10, 0, 0>>}
BatchSizes == {10}

BatchInit == ClientInit({<<WIDTH, HEIGHT>>})

BatchNext ==
    \/ ClientDrawBegin(MaxFrames)
    \/ ClientDrawText(BatchTexts, BatchPositions, BatchSizes)
    \/ ClientDrawTextFault(BatchTexts, BatchPositions, BatchSizes)
    \/ ClientRenderFrame

BatchSpec == BatchInit /\ [][BatchNext]_vars

TextTexts == Strings(InRangeChars, MaxLen)

TextInit == ClientInit(WindowSizes)

TextNext ==
    \/ ClientDrawBegin(1)
    \/ ClientDrawText(TextTexts, Positions, Sizes)
    \/ ClientRenderFrame

TextSpec == TextInit /\ [][TextNext]_vars

\* Frame after frame of texts of one in-range char, the batch reused and
\* grown across the frames
GrowChars == {65}
GrowTexts == Strings(GrowChars, MaxLen)

GrowInit == ClientInit({<<WIDTH, HEIGHT>>})

GrowNext ==
    \/ ClientDrawBegin(MaxFrames)
    \/ ClientDrawText(GrowTexts, BatchPositions, BatchSizes)
    \/ ClientRenderFrame

GrowSpec == GrowInit /\ [][GrowNext]_vars

-----------------------------------------------------------------------------
(* Render on a vector of any size *)

\* the sizes: within MaxDelta vertices of a multiple of the VBO's capacity
RenderSizes ==
    {n \in {m * VboVertices + d : m \in 0 .. MaxChunks, d \in (0 - MaxDelta) .. MaxDelta} :
        n >= 0}

RenderInit ==
    /\ pc = "Render"
    /\ currentWindowHeight = HEIGHT
    /\ viewProjectionMat = SetupViewProjection(WIDTH, HEIGHT)
    /\ vpEvent = <<WIDTH, HEIGHT>>
    /\ heightEvent = <<WIDTH, HEIGHT>>
    /\ vertices = <<>>
    /\ vertexIndex = 0
    /\ packedChars \in Fonts
    /\ alignedQuads = AlignedQuadsOf(packedChars)
    /\ fontTextureID = 1
    /\ fontLoad = [file |-> "valid", initFont |-> 1, packed |-> 1]
    /\ stderrLog = {}
    /\ windowShouldClose = FALSE
    /\ eventQueue = <<>>
    /\ glCalls = <<>>
    /\ renderArg \in RenderSizes
    /\ frameCalls = <<>>
    /\ frameSteps = <<>>
    /\ frameNo = 0

\* Render(v) for a vector v of renderArg vertices
RenderCall ==
    /\ pc = "Render"
    /\ \E outcome \in RenderOutcomes(renderArg, viewProjectionMat) :
          /\ glCalls' = outcome.calls
          /\ pc' = IF outcome.crashed THEN "crashed" ELSE "Rendered"
    /\ UNCHANGED <<windowVars, batchVars, fontVars, eventVars, renderArg,
                   frameCalls, frameSteps, frameNo>>

RenderNext == RenderCall

RenderSpec == RenderInit /\ [][RenderNext]_vars

-----------------------------------------------------------------------------
(* Properties *)

Min(a, b) == IF a < b THEN a ELSE b
Max(a, b) == IF a > b THEN a ELSE b

\* RenderFrame has run in the current frame
Rendered == \E k \in 1 .. Len(frameSteps) : frameSteps[k] = "RenderFrame"

\* the calls of one GL function among `calls`, in order
CallsOf(calls, op) == SelectSeq(calls, LAMBDA c : c.op = op)

\* C1: for a batch of V vertices and a chunk capacity of C vertices, one call
\* of Render issues exactly ceil(V / C) draw calls.
C1_DrawCallsAreCeil ==
    pc = "Rendered" =>
        Len(CallsOf(glCalls, "glDrawArrays"))
            = (renderArg + VboVertices - 1) \div VboVertices

\* the number of vertices of [0, V) that fall into chunk k
ChunkLen(k, v) == Max(0, Min((k + 1) * VboVertices, v) - k * VboVertices)

\* C2: the k-th chunk Render submits uploads and draws exactly the vertices
\* [k * C, min((k + 1) * C, V)) of the batch.
C2_ChunksCoverBatch ==
    pc = "Rendered" =>
        LET uploads == CallsOf(glCalls, "glBufferSubData")
            draws   == CallsOf(glCalls, "glDrawArrays")
        IN  \A k \in 1 .. Len(draws) :
               /\ uploads[k].first = (k - 1) * VboVertices
               /\ uploads[k].bytes = ChunkLen(k - 1, renderArg) * SizeofVertex
               /\ draws[k].count = ChunkLen(k - 1, renderArg)

\* the vertices the uploads of `calls` copy out of the vector vs
RECURSIVE Uploaded(_, _)
Uploaded(calls, vs) ==
    IF calls = <<>> THEN <<>>
    ELSE LET c == Head(calls)
         IN  (IF c.op = "glBufferSubData"
              THEN SubSeq(vs, c.first + 1, c.first + (c.bytes \div SizeofVertex))
              ELSE <<>>) \o Uploaded(Tail(calls), vs)

\* the vertices the DrawText calls `calls` of this frame wrote into vs
RECURSIVE Appended(_, _)
Appended(calls, vs) ==
    IF calls = <<>> THEN <<>>
    ELSE LET c == Head(calls)
         IN  SubSeq(vs, c.first + 1, c.first + 6 * Len(c.reads))
             \o Appended(Tail(calls), vs)

\* C3: the vertices RenderFrame submits are exactly the vertices appended by
\* the DrawText calls made since the most recent DrawBegin; no vertex of an
\* earlier frame is submitted.
C3_SubmitsThisFrameOnly ==
    Rendered => Uploaded(glCalls, vertices) = Appended(frameCalls, vertices)

\* C4: a char outside [32, 127) makes the glyph lookup fail without a read of
\* packedChars / alignedQuads outside [0, 95), and DrawText goes on.
C4_NoReadOutsideTables ==
    /\ \A k \in 1 .. Len(frameCalls) :
          \A j \in 1 .. Len(frameCalls[k].reads) :
             /\ frameCalls[k].reads[j][1] = 0
             /\ frameCalls[k].reads[j][2] < charsToIncludeInFontAtlas
    /\ pc # "crashed"

\* C5: a DrawText call of a string of n chars, all in the baked range, adds
\* exactly 6n to vertexIndex, and between one DrawBegin and the next
\* vertexIndex never decreases.
C5_SixVerticesPerChar ==
    [][/\ Len(frameCalls') = Len(frameCalls) + 1 =>
             vertexIndex' = vertexIndex + 6 * Len(frameCalls'[Len(frameCalls')].text)
       /\ frameNo' = frameNo => vertexIndex' >= vertexIndex]_vars

C5_Witness ==
    /\ Len(frameCalls) = 2
    /\ Len(frameCalls[1].text) = 1
    /\ Len(frameCalls[2].text) = 2
    /\ vertexIndex = 18

\* the steps of one iteration of the loop of main()
FrameOrder ==
    <<"ClearWindow", "DrawBegin", "DrawText", "DrawText", "DrawText",
      "RenderFrame", "UpdateWindow">>

\* the place in FrameOrder of the step main() is about to take
PlaceInFrame(p) ==
    CASE p = "DrawBegin"    -> 2
      [] p = "DrawText1"    -> 3
      [] p = "DrawText2"    -> 4
      [] p = "DrawText3"    -> 5
      [] p = "RenderFrame"  -> 6
      [] p = "UpdateWindow" -> 7

\* C6: every iteration of the render loop runs clear, DrawBegin, the
\* DrawText calls, RenderFrame, UpdateWindow in this order, RenderFrame once,
\* no DrawText before DrawBegin or after RenderFrame.
C6_FrameOrder ==
    /\ pc \in {"DrawBegin", "DrawText1", "DrawText2", "DrawText3", "RenderFrame",
               "UpdateWindow"} =>
          frameSteps = SubSeq(FrameOrder, 1, PlaceInFrame(pc) - 1)
    /\ pc \in {"DrawText1", "DrawText2", "DrawText3", "RenderFrame", "UpdateWindow"} =>
          Len(frameCalls) = Min(PlaceInFrame(pc), 6) - 3
    /\ pc \in {"WindowShouldClose", "ClearWindow", "Terminate", "done"} =>
          frameSteps \in {<<>>, FrameOrder}

C6_Witness ==
    /\ pc = "WindowShouldClose"
    /\ frameSteps = FrameOrder
    /\ Len(frameCalls) = 3
    /\ renderArg = 6 * (37 + 37 + 22)

\* C7: the window-size callback updates the view projection and the window
\* height together, between two frames: the DrawText calls and the Render of
\* one frame use a height and a matrix of the same resize event.
C7_ResizeAtomic ==
    /\ pc \in {"WindowShouldClose", "ClearWindow", "DrawBegin", "DrawText1",
               "DrawText2", "DrawText3", "RenderFrame", "UpdateWindow"} =>
          /\ vpEvent = heightEvent
          /\ currentWindowHeight = heightEvent[2]
          /\ viewProjectionMat = SetupViewProjection(vpEvent[1], vpEvent[2])
    /\ pc \in {"DrawText2", "DrawText3", "RenderFrame", "UpdateWindow"} =>
          \A k \in 1 .. Len(frameCalls) : frameCalls[k].height = heightEvent[2]
    /\ pc = "UpdateWindow" =>
          \A k \in 1 .. Len(glCalls) :
             glCalls[k].op = "glUniformMatrix4fv" =>
                glCalls[k].value = SetupViewProjection(vpEvent[1], vpEvent[2])

C7_Witness ==
    /\ pc = "UpdateWindow"
    /\ heightEvent = <<800, 300>>
    /\ Len(frameCalls) = 3
    /\ frameCalls[1].height = 300
    /\ eventQueue # <<>>
    /\ eventQueue[1].type = "size"
    /\ eventQueue[1].size = <<WIDTH, HEIGHT>>

\* C8: when the font bytes are malformed or unreadable start-up is aborted:
\* no atlas is baked and uploaded from them and the render loop is not
\* entered.
C8_FontErrorAbortsStartup ==
    (fontLoad.file = "malformed" \/ pc = "terminate") =>
        /\ fontTextureID = 0
        /\ pc \in {"RendererInit", "terminate", "exit"}
        /\ frameCalls = <<>>
        /\ glCalls = <<>>

\* C9: when the glyph range does not fit the atlas, baking ends in the
\* reported, fatal error AtlasOverflow: no texture is uploaded and nothing
\* is rendered with partly packed glyph metrics.
C9_AtlasOverflowIsFatal ==
    (fontLoad.file = "valid" /\ fontLoad.packed = 0) =>
        /\ fontTextureID = 0
        /\ stderrLog # {}
        /\ pc \in {"RendererInit", "terminate", "exit"}
        /\ frameCalls = <<>>

\* the sum of the advances of text[1 .. k], each xadvance * pixelScale * size
RECURSIVE SumOfAdvances(_, _, _, _)
SumOfAdvances(text, k, height, size) ==
    IF k = 0 THEN 0
    ELSE SumOfAdvances(text, k - 1, height, size)
         + Scaled(packedChars[GlyphIndex(text[k])[2]].xadvance, PixelScale(height), size)

\* the six vertices DrawText writes for the one char ch drawn alone at `pen`
Alone(ch, pen, height, color, size) ==
    DrawChars([vertices |-> <<>>, vertexIndex |-> 0, position |-> pen, reads |-> <<>>,
               writes |-> <<>>],
              <<ch>>, 1, packedChars, alignedQuads, height, color, size,
              <<NoGarbage>>).vertices

\* C10: the pen advance is additive: in a DrawText call at p the quad of the
\* k-th char is the quad of that char drawn alone at p.x plus the sum of the
\* advances xadvance * pixelScale * size of the chars before it; the pen ends
\* at p.x plus the sum of all advances, and its y and z never change.
C10_PenAdvanceAdditive ==
    \A c \in 1 .. Len(frameCalls) :
        LET call == frameCalls[c]
            penAt(k) == <<call.position[1]
                            + SumOfAdvances(call.text, k, call.height, call.size),
                          call.position[2], call.position[3]>>
        IN  /\ \A k \in 1 .. Len(call.text) :
                  SubSeq(vertices, call.first + 6 * (k - 1) + 1, call.first + 6 * k)
                      = Alone(call.text[k], penAt(k - 1), call.height, call.color,
                              call.size)
            /\ call.pen = penAt(Len(call.text))

C10_Witness ==
    /\ Len(frameCalls) = 2
    /\ frameCalls[2].text = <<65, 66>>
    /\ frameCalls[2].first = 6
    /\ frameCalls[2].size = 5
    /\ frameCalls[2].height = 300
    /\ frameCalls[2].pen[1] # frameCalls[2].position[1]

\* the places in the log of the GL calls `op` of chunk k
PlacesOf(calls, op, k) ==
    {j \in 1 .. Len(calls) : calls[j].op = op /\ calls[j].chunk = k}

\* C11: within one call of Render the chunks are submitted in ascending
\* order, one at a time: the chunk numbers of the GL calls never go down,
\* every chunk has at most one upload and one draw, a chunk's draw comes after
\* the binding of the ViewProjection uniform and after the upload of that
\* chunk, and before the upload of the next chunk into the same buffer.
C11_ChunksInOrder ==
    /\ \A i, j \in 1 .. Len(glCalls) : i < j => glCalls[i].chunk <= glCalls[j].chunk
    /\ \A k \in 0 .. DrawCallCount(renderArg * SizeofVertex) - 1 :
          /\ Cardinality(PlacesOf(glCalls, "glBufferSubData", k)) <= 1
          /\ Cardinality(PlacesOf(glCalls, "glDrawArrays", k)) <= 1
          /\ \A d \in PlacesOf(glCalls, "glDrawArrays", k) :
                /\ \E u \in PlacesOf(glCalls, "glUniformMatrix4fv", k) :
                      u < d /\ glCalls[u].value = viewProjectionMat
                /\ \E b \in PlacesOf(glCalls, "glBufferSubData", k) : b < d
                /\ \A b \in PlacesOf(glCalls, "glBufferSubData", k + 1) : d < b
    /\ pc = "Rendered" =>
          \A k \in 0 .. DrawCallCount(renderArg * SizeofVertex) - 1 :
             PlacesOf(glCalls, "glDrawArrays", k) # {}

\* a Render that returned after more than one chunk
C11_Witness ==
    /\ pc = "Rendered"
    /\ PlacesOf(glCalls, "glDrawArrays", 0) # {}
    /\ PlacesOf(glCalls, "glBufferSubData", 1) # {}
    /\ PlacesOf(glCalls, "glDrawArrays", 1) # {}

\* the batch before and after each char of the DrawText call that the step
\* appends to the calls of the frame
LoopOfStep ==
    LET call == frameCalls'[Len(frameCalls')]
    IN  DrawTrace([vertices |-> vertices, vertexIndex |-> vertexIndex,
                   position |-> call.position, reads |-> <<>>, writes |-> <<>>],
                  call.text, Len(call.text), packedChars, alignedQuads,
                  call.height, call.color, call.size,
                  [k \in 1 .. Len(call.text) |-> NoGarbage])

\* C12: over frames of DrawBegin and DrawText on in-range chars, vertexIndex
\* and vertices.size() are multiples of 6 with vertexIndex <= vertices.size(),
\* every vertex DrawText writes is at an index below the size() the vector
\* has at the write, vertices.size() never decreases, and every iteration of
\* the loop of DrawText, growing the vector or not, leaves the vertices below
\* its vertexIndex (the ones written so far in the frame) where they are
\* with their values.
C12_BatchStorage ==
    /\ [](/\ vertexIndex % 6 = 0
          /\ Len(vertices) % 6 = 0
          /\ vertexIndex <= Len(vertices)
          /\ \A c \in 1 .. Len(frameCalls) :
                \A k \in 1 .. Len(frameCalls[c].writes) :
                   LET w == frameCalls[c].writes[k]
                   IN  /\ w.index % 6 = 0
                       /\ w.index + 5 < w.size
                       /\ w.size <= Len(vertices))
    /\ [][/\ Len(vertices') >= Len(vertices)
          /\ Len(frameCalls') = Len(frameCalls) + 1 =>
                /\ LoopOfStep[Len(LoopOfStep)].vertices = vertices'
                /\ \A k \in 1 .. Len(LoopOfStep) - 1 :
                      /\ Len(LoopOfStep[k + 1].vertices) >= Len(LoopOfStep[k].vertices)
                      /\ SubSeq(LoopOfStep[k + 1].vertices, 1, LoopOfStep[k].vertexIndex)
                            = SubSeq(LoopOfStep[k].vertices, 1, LoopOfStep[k].vertexIndex)
         ]_vars

\* in a second frame, two DrawText calls that have grown the vector beyond
\* what the frame before left
C12_Witness ==
    /\ frameNo = 2
    /\ Len(frameCalls) = 2
    /\ frameCalls[1].writes # <<>>
    /\ frameCalls[2].writes # <<>>
    /\ renderArg > 0
    /\ Len(vertices) > renderArg
    /\ vertexIndex = Len(vertices)

====
